---- MODULE Spec2Model ----
(***************************************************************************)
(* BufFile (src/src/file_buffer.rs): an LRU cache of fixed-size slabs over *)
(* a backing store F: Read + Write + Seek, with its own logical cursor.    *)
(*                                                                         *)
(* Sizes are scaled down: SLAB_SIZE is 2 bytes instead of 512 KiB and the  *)
(* u64 cursor is 3 bits wide (U64_MOD = 2^3) instead of 64, so that slab   *)
(* boundaries, evictions and cursor overflow all occur within the bounds.  *)
(* Offsets are 0-based as in the source; sequences are 1-based, so byte    *)
(* offset o of a store or of a slab is element o + 1.                      *)
(***************************************************************************)
EXTENDS Integers, Sequences, FiniteSets, TLC

\* const SLAB_SIZE (a power of two), scaled down from 512*1024.
SLAB_SIZE == 2

\* The number of values of the u64 cursor (2^64), scaled down to 2^3.
U64_MOD == 8

\* Largest capacity passed to with_capacity.
MaxCapacity == 2

\* Number of read/write/flush calls in one run.
MaxOps == 3

\* Number of seek calls in one run.
MaxSeeks == 2

\* Number of read/write/flush calls in one run of the cache-only specification.
DeepOps == MaxOps + 1

\* Number of read/write/flush calls and of seek calls in one run of the
\* specification with a failing store.
IoOps == MaxOps - 1

IoSeeks == MaxSeeks - 1

\* Slab indices addressable by the cursor.
SlabIdx == 0 .. ((U64_MOD \div SLAB_SIZE) - 1)

\* Offsets within a slab.
SlabOff == 0 .. (SLAB_SIZE - 1)

\* What the uninitialised slab block may be filled with in a build without
\* debug assertions: zeros, or something stale (one representative value).
UninitBytes == {0, 99}

\* The caller's write buffers and the lengths of its read buffers.
WriteBufs == {<<1>>, <<2, 3>>}

ReadLens == 0 .. SLAB_SIZE

\* The narrower inputs of the cache-only specification: whole-slab transfers
\* at slab-aligned offsets.
LruWriteBufs == {<<2, 3>>}

LruReadLens == {SLAB_SIZE}

LruSeekStarts == {i * SLAB_SIZE : i \in 0 .. ((U64_MOD \div SLAB_SIZE) - 1)}

\* Arguments of seek.
SeekStarts == 0 .. (U64_MOD - 1)

SeekDeltas == -1 .. 1

SeekEnds == -1 .. 1

\* The backing store handed to with_capacity: its content and its position.
InitStores == { [content |-> << >>, pos |-> 0],
                [content |-> <<10, 11, 12>>, pos |-> 0],
                [content |-> <<10, 11, 12>>, pos |-> 3] }

\* The kind of call the backing store currently fails with an io::Error:
\* seek, read, write_all, flush ("sync"), or none.
Faults == {"none", "seek", "read", "write", "sync"}

\* Ghost value: no byte was written at this offset.
NoByte == 0 - 1

VARIABLES
    file,       \* backing store: its content
    fpos,       \* backing store: its own position
    fault,      \* backing store: the kind of call it fails, see Faults
    slabs,      \* LruCache<usize, Slab>, least recently used first
    capacity,   \* LruCache capacity
    cursor,     \* BufFile::cursor
    debug,      \* cfg!(debug_assertions): zeroed slabs, checked arithmetic
    status,     \* "open" | "panicked" | "released" (into_inner returned
                \* the store) | "dropped" (torn down together with the store)
    last,       \* the last call and what it returned
    ops,        \* number of read/write/flush calls so far
    seeks,      \* number of seek calls so far
    reads,      \* ghost: number of read calls so far
    writes,     \* ghost: number of write calls so far
    touch,      \* ghost: per slab index, the call that last accessed it
    born,       \* ghost: per slab index, the call that last inserted it
    wrote,      \* ghost: per slab index, bytes written since it entered the cache
    ref_file,   \* reference direct-I/O store: content
    ref_pos,    \* reference direct-I/O store: position
    ref_last    \* what the reference store returned for the last call

rvars == <<ref_file, ref_pos, ref_last>>

vars == <<file, fpos, fault, slabs, capacity, cursor, debug, status, last, ops,
          seeks, reads, writes, touch, born, wrote, ref_file, ref_pos, ref_last>>

\* Let(v, F) is F(v), with v evaluated once however often F uses it.
The(S) == CHOOSE x \in S : TRUE

Let(v, F(_)) == The({F(x) : x \in {v}})

Min(a, b) == IF a <= b THEN a ELSE b

Max(a, b) == IF a >= b THEN a ELSE b

(***************************************************************************)
(* The backing store (F: Read + Write + Seek): a growable byte vector with *)
(* a position, as std::fs::File or io::Cursor<Vec<u8>> behave.             *)
(***************************************************************************)

\* f.read(buf) with buf.len() = n at position pos: the bytes delivered.
StoreRead(f, pos, n) ==
    IF pos >= Len(f) \/ n <= 0 THEN << >>
    ELSE SubSeq(f, pos + 1, Min(pos + n, Len(f)))

\* f.write_all(bytes) at position pos: the new content (a gap is zero-filled).
StoreWrite(f, pos, bytes) ==
    LET n == IF Len(bytes) = 0 THEN Len(f) ELSE Max(Len(f), pos + Len(bytes))
    IN [i \in 1 .. n |->
            IF i > pos /\ i <= pos + Len(bytes) THEN bytes[i - pos]
            ELSE IF i <= Len(f) THEN f[i]
            ELSE 0]

\* f.seek(SeekFrom::End(k)): the new position, or an error.
StoreSeekEnd(f, k) ==
    LET p == Len(f) + k
    IN IF p < 0 \/ p >= U64_MOD THEN [ok |-> FALSE, pos |-> 0]
       ELSE [ok |-> TRUE, pos |-> p]

\* f.seek(SeekFrom::Current(d)) on the reference store.
StoreSeekCurrent(pos, d) ==
    LET p == pos + d
    IN IF p < 0 \/ p >= U64_MOD THEN [ok |-> FALSE, pos |-> pos]
       ELSE [ok |-> TRUE, pos |-> p]

(***************************************************************************)
(* Slab                                                                    *)
(***************************************************************************)

\* Slab::new(): fill is what the allocated block holds.
Slab_new(idx, fill) ==
    [idx |-> idx, data |-> fill, bytes_used |-> 0, dirty |-> FALSE]

\* The blocks Slab::new() can produce in this build.
Fills == IF debug THEN {[i \in 1 .. SLAB_SIZE |-> 0]}
         ELSE {[i \in 1 .. SLAB_SIZE |-> b] : b \in UninitBytes}

\* Slab::flush without the test of self.dirty: a clean slab is written too.
Slab_flush_Always(slab, f, pos, offset) ==
    IF fault = "seek"
    THEN [err |-> TRUE, slab |-> slab, file |-> f, fpos |-> pos,
          io |-> <<"seek">>]
    ELSE IF fault = "write"
    THEN [err |-> TRUE, slab |-> slab, file |-> f, fpos |-> offset,
          io |-> <<"seek", "write">>]
    ELSE [err |-> FALSE, slab |-> [slab EXCEPT !.dirty = FALSE],
          file |-> StoreWrite(f, offset, slab.data),
          fpos |-> offset + SLAB_SIZE, io |-> <<"seek", "write">>]

\* Slab::flush(f, offset): seek and write the whole block when dirty; a
\* failing call ends it (?) with the slab still dirty. io lists the calls
\* made on the store. A failed write_all is taken to have written nothing.
Slab_flush(slab, f, pos, offset) ==
    IF slab.dirty
    THEN IF fault = "seek"
         THEN [err |-> TRUE, slab |-> slab, file |-> f, fpos |-> pos,
               io |-> <<"seek">>]
         ELSE IF fault = "write"
         THEN [err |-> TRUE, slab |-> slab, file |-> f, fpos |-> offset,
               io |-> <<"seek", "write">>]
         ELSE [err |-> FALSE, slab |-> [slab EXCEPT !.dirty = FALSE],
               file |-> StoreWrite(f, offset, slab.data),
               fpos |-> offset + SLAB_SIZE, io |-> <<"seek", "write">>]
    ELSE [err |-> FALSE, slab |-> slab, file |-> f, fpos |-> pos, io |-> << >>]

\* data[from ..] overwritten with bytes (0-based from).
Overlay(data, from, bytes) ==
    [i \in 1 .. Len(data) |->
        IF i > from /\ i <= from + Len(bytes) THEN bytes[i - from] ELSE data[i]]

(***************************************************************************)
(* The cache                                                               *)
(***************************************************************************)

CachedIdx(cache) == {cache[k].idx : k \in 1 .. Len(cache)}

PosOf(cache, idx) == CHOOSE k \in 1 .. Len(cache) : cache[k].idx = idx

\* The sequence without its k-th element.
Without(s, k) == SubSeq(s, 1, k - 1) \o SubSeq(s, k + 1, Len(s))

\* The slab cached for idx.
SlabOf(cache, idx) == cache[PosOf(cache, idx)]

\* add_slab without the eviction: a full cache just grows.
add_slab_NoEvict(cache, cap, f, pos, idx, fill) ==
    IF cap = 0
    THEN [panic |-> TRUE, err |-> FALSE, slabs |-> cache, at |-> 0,
          file |-> f, fpos |-> pos, io |-> << >>]
    ELSE [panic |-> FALSE, err |-> FALSE,
          slabs |-> Append(cache, Slab_new(idx, fill)),
          at |-> Len(cache) + 1, file |-> f, fpos |-> pos, io |-> << >>]

\* add_slab that allocates a slab when the capacity is 0 instead of panicking
\* on remove_lru() returning None.
add_slab_ZeroGrows(cache, cap, f, pos, idx, fill) ==
    IF Len(cache) = cap /\ cap # 0
    THEN Let(Slab_flush(Head(cache), f, pos, Head(cache).idx * SLAB_SIZE),
             LAMBDA r :
               IF r.err
               THEN [panic |-> FALSE, err |-> TRUE, slabs |-> Tail(cache),
                     at |-> 0, file |-> r.file, fpos |-> r.fpos, io |-> r.io]
               ELSE [panic |-> FALSE, err |-> FALSE,
                     slabs |-> Append(Tail(cache),
                                      [r.slab EXCEPT !.bytes_used = 0,
                                                     !.idx = idx]),
                     at |-> Len(cache), file |-> r.file, fpos |-> r.fpos,
                     io |-> r.io])
    ELSE [panic |-> FALSE, err |-> FALSE,
          slabs |-> Append(cache, Slab_new(idx, fill)),
          at |-> Len(cache) + 1, file |-> f, fpos |-> pos, io |-> << >>]

\* add_slab that goes on after a failed write-back of the evicted slab
\* (let _ = old_slab.flush(..) for old_slab.flush(..)?).
add_slab_IgnoreErr(cache, cap, f, pos, idx, fill) ==
    IF Len(cache) = cap
    THEN IF cap = 0
         THEN [panic |-> TRUE, err |-> FALSE, slabs |-> cache, at |-> 0,
               file |-> f, fpos |-> pos, io |-> << >>]
         ELSE Let(Slab_flush(Head(cache), f, pos, Head(cache).idx * SLAB_SIZE),
                  LAMBDA r :
                    [panic |-> FALSE, err |-> FALSE,
                     slabs |-> Append(Tail(cache),
                                      [r.slab EXCEPT !.bytes_used = 0, !.idx = idx]),
                     at |-> Len(cache), file |-> r.file, fpos |-> r.fpos,
                     io |-> r.io])
    ELSE [panic |-> FALSE, err |-> FALSE,
          slabs |-> Append(cache, Slab_new(idx, fill)),
          at |-> Len(cache) + 1, file |-> f, fpos |-> pos, io |-> << >>]

\* add_slab that reuses the evicted slab as it is (no old_slab.bytes_used = 0).
add_slab_KeepLen(cache, cap, f, pos, idx, fill) ==
    IF Len(cache) = cap
    THEN IF cap = 0
         THEN [panic |-> TRUE, err |-> FALSE, slabs |-> cache, at |-> 0,
               file |-> f, fpos |-> pos, io |-> << >>]
         ELSE Let(Slab_flush(Head(cache), f, pos, Head(cache).idx * SLAB_SIZE),
                  LAMBDA r :
                    IF r.err
                    THEN [panic |-> FALSE, err |-> TRUE, slabs |-> Tail(cache),
                          at |-> 0, file |-> r.file, fpos |-> r.fpos, io |-> r.io]
                    ELSE [panic |-> FALSE, err |-> FALSE,
                          slabs |-> Append(Tail(cache), [r.slab EXCEPT !.idx = idx]),
                          at |-> Len(cache), file |-> r.file, fpos |-> r.fpos,
                          io |-> r.io])
    ELSE [panic |-> FALSE, err |-> FALSE,
          slabs |-> Append(cache, Slab_new(idx, fill)),
          at |-> Len(cache) + 1, file |-> f, fpos |-> pos, io |-> << >>]

\* BufFile::add_slab. remove_lru has taken the evicted slab out of the cache
\* when its write-back fails, so the error return (?) drops that slab.
add_slab(cache, cap, f, pos, idx, fill) ==
    IF Len(cache) = cap
    THEN IF cap = 0
         THEN [panic |-> TRUE, err |-> FALSE, slabs |-> cache, at |-> 0,
               file |-> f, fpos |-> pos, io |-> << >>]
         ELSE Let(Slab_flush(Head(cache), f, pos, Head(cache).idx * SLAB_SIZE),
                  LAMBDA r :
                    IF r.err
                    THEN [panic |-> FALSE, err |-> TRUE, slabs |-> Tail(cache),
                          at |-> 0, file |-> r.file, fpos |-> r.fpos, io |-> r.io]
                    ELSE [panic |-> FALSE, err |-> FALSE,
                          slabs |-> Append(Tail(cache),
                                           [r.slab EXCEPT !.bytes_used = 0,
                                                          !.idx = idx]),
                          at |-> Len(cache), file |-> r.file, fpos |-> r.fpos,
                          io |-> r.io])
    ELSE [panic |-> FALSE, err |-> FALSE,
          slabs |-> Append(cache, Slab_new(idx, fill)),
          at |-> Len(cache) + 1, file |-> f, fpos |-> pos, io |-> << >>]

\* fetch_slab whose hit does not refresh the entry's recency (peek_mut for
\* get_mut).
fetch_slab_Peek(cache, cap, f, pos, idx, fill) ==
    IF idx \in CachedIdx(cache)
    THEN [panic |-> FALSE, err |-> FALSE, slabs |-> cache,
          at |-> PosOf(cache, idx), file |-> f, fpos |-> pos, io |-> << >>]
    ELSE add_slab(cache, cap, f, pos, idx, fill)

\* BufFile::fetch_slab: the slab handed back is .slabs[.at]. get_mut moves
\* the entry to the most recently used end.
fetch_slab(cache, cap, f, pos, idx, fill) ==
    IF idx \in CachedIdx(cache)
    THEN LET k == PosOf(cache, idx)
         IN [panic |-> FALSE, err |-> FALSE,
             slabs |-> Append(Without(cache, k), cache[k]),
             at |-> Len(cache), file |-> f, fpos |-> pos, io |-> << >>]
    ELSE add_slab(cache, cap, f, pos, idx, fill)

\* idx_from_offset
idx_from_offset(offset) == offset \div SLAB_SIZE

(***************************************************************************)
(* Read                                                                    *)
(***************************************************************************)

\* The fill loop of read: while cursor_offset >= slab.bytes_used. A failing
\* file.read ends it (?) with what was loaded so far.
RECURSIVE read_fill(_, _, _, _)
read_fill(slab, f, pos, cursor_offset) ==
    IF cursor_offset >= slab.bytes_used
    THEN IF fault = "read"
         THEN [err |-> TRUE, slab |-> slab, fpos |-> pos, io |-> <<"read">>]
         ELSE Let(StoreRead(f, pos, SLAB_SIZE - slab.bytes_used), LAMBDA got :
                IF Len(got) = 0
                THEN [err |-> FALSE, slab |-> slab, fpos |-> pos,
                      io |-> <<"read">>]
                ELSE Let([slab EXCEPT !.data = Overlay(@, slab.bytes_used, got),
                                      !.bytes_used = @ + Len(got)],
                         LAMBDA more :
                           [read_fill(more, f, pos + Len(got), cursor_offset)
                               EXCEPT !.io = <<"read">> \o @]))
    ELSE [err |-> FALSE, slab |-> slab, fpos |-> pos, io |-> << >>]

\* self.cursor += len: the sum, or on overflow a panic (checked) or a wrap.
cursor_add(cur, len, checked) ==
    IF cur + len < U64_MOD THEN [panic |-> FALSE, cursor |-> cur + len]
    ELSE IF checked THEN [panic |-> TRUE, cursor |-> cur]
    ELSE [panic |-> FALSE, cursor |-> (cur + len) % U64_MOD]

\* The rest of read once the slab is fetched (got) and filled (r).
read_copy(n, got, r) ==
    LET cursor_offset == cursor - idx_from_offset(cursor) * SLAB_SIZE
        slab == r.slab
        cache == [got.slabs EXCEPT ![got.at] = slab]
        len == slab.bytes_used - cursor_offset
        adv == cursor_add(cursor, len, debug)
        io == got.io \o r.io
    IN IF r.err
       THEN [ok |-> "Err", val |-> 0, data |-> << >>, cursor |-> cursor,
             slabs |-> cache, file |-> got.file, fpos |-> r.fpos, io |-> io]
       ELSE IF len < 0 \/ len > n \/ adv.panic
       THEN [ok |-> "Panic", val |-> 0, data |-> << >>, cursor |-> cursor,
             slabs |-> cache, file |-> got.file, fpos |-> r.fpos, io |-> io]
       ELSE [ok |-> "Ok", val |-> len,
             data |-> SubSeq(slab.data, cursor_offset + 1, slab.bytes_used),
             cursor |-> adv.cursor,
             slabs |-> cache, file |-> got.file, fpos |-> r.fpos, io |-> io]

\* read that marks the slab it reads from dirty.
read_MarksDirty(n, fill) ==
    LET idx == idx_from_offset(cursor)
        cursor_offset == cursor - idx * SLAB_SIZE
    IN Let(fetch_slab(slabs, capacity, file, fpos, idx, fill), LAMBDA got :
         IF got.panic \/ got.err
         THEN [ok |-> IF got.panic THEN "Panic" ELSE "Err", val |-> 0,
               data |-> << >>, cursor |-> cursor, slabs |-> got.slabs,
               file |-> got.file, fpos |-> got.fpos, io |-> got.io]
         ELSE Let(read_fill([got.slabs[got.at] EXCEPT !.dirty = TRUE],
                            got.file, got.fpos, cursor_offset),
                  LAMBDA r : read_copy(n, got, r)))

\* BufFile::read with buf.len() = n. An error of fetch_slab or of the fill
\* loop is returned (?) before the cursor moves.
read(n, fill) ==
    LET idx == idx_from_offset(cursor)
        cursor_offset == cursor - idx * SLAB_SIZE
    IN Let(fetch_slab(slabs, capacity, file, fpos, idx, fill), LAMBDA got :
         IF got.panic \/ got.err
         THEN [ok |-> IF got.panic THEN "Panic" ELSE "Err", val |-> 0,
               data |-> << >>, cursor |-> cursor, slabs |-> got.slabs,
               file |-> got.file, fpos |-> got.fpos, io |-> got.io]
         ELSE Let(read_fill(got.slabs[got.at], got.file, got.fpos, cursor_offset),
                  LAMBDA r : read_copy(n, got, r)))

(***************************************************************************)
(* Write and flush                                                         *)
(***************************************************************************)

\* The fill loop of write: while cursor_offset > slab.bytes_used.
RECURSIVE write_fill(_, _, _, _)
write_fill(slab, f, pos, cursor_offset) ==
    IF cursor_offset > slab.bytes_used
    THEN IF fault = "read"
         THEN [err |-> TRUE, slab |-> slab, fpos |-> pos, io |-> <<"read">>]
         ELSE Let(StoreRead(f, pos, cursor_offset - slab.bytes_used), LAMBDA got :
                IF Len(got) = 0
                THEN [err |-> FALSE, slab |-> slab, fpos |-> pos,
                      io |-> <<"read">>]
                ELSE Let([slab EXCEPT !.data = Overlay(@, slab.bytes_used, got),
                                      !.bytes_used = @ + Len(got)],
                         LAMBDA more :
                           [write_fill(more, f, pos + Len(got), cursor_offset)
                               EXCEPT !.io = <<"read">> \o @]))
    ELSE [err |-> FALSE, slab |-> slab, fpos |-> pos, io |-> << >>]

\* The rest of write once the slab is fetched (got), marked dirty and filled
\* (r): an error of the fill loop is returned (?) with the slab left dirty.
write_copy(buf, got, r) ==
    LET cursor_offset == cursor - idx_from_offset(cursor) * SLAB_SIZE
        len == Min(Len(buf), SLAB_SIZE - cursor_offset)
        slab == [r.slab EXCEPT
                    !.data = Overlay(@, cursor_offset, SubSeq(buf, 1, len))]
        cache == [got.slabs EXCEPT ![got.at] = slab]
        adv == cursor_add(cursor, len, debug)
        io == got.io \o r.io
    IN IF r.err
       THEN [ok |-> "Err", val |-> 0, cursor |-> cursor,
             slabs |-> [got.slabs EXCEPT ![got.at] = r.slab],
             file |-> got.file, fpos |-> r.fpos, io |-> io]
       ELSE IF adv.panic
       THEN [ok |-> "Panic", val |-> 0, cursor |-> cursor,
             slabs |-> cache, file |-> got.file, fpos |-> r.fpos, io |-> io]
       ELSE [ok |-> "Ok", val |-> len, cursor |-> adv.cursor,
             slabs |-> cache, file |-> got.file, fpos |-> r.fpos, io |-> io]

\* BufFile::write
write(buf, fill) ==
    LET idx == idx_from_offset(cursor)
        cursor_offset == cursor - idx * SLAB_SIZE
    IN Let(fetch_slab(slabs, capacity, file, fpos, idx, fill), LAMBDA got :
         IF got.panic \/ got.err
         THEN [ok |-> IF got.panic THEN "Panic" ELSE "Err", val |-> 0,
               cursor |-> cursor, slabs |-> got.slabs,
               file |-> got.file, fpos |-> got.fpos, io |-> got.io]
         ELSE Let(write_fill([got.slabs[got.at] EXCEPT !.dirty = TRUE],
                             got.file, got.fpos, cursor_offset),
                  LAMBDA r : write_copy(buf, got, r)))

\* The loop of flush: slabs.iter_mut() visits the slabs from position k on,
\* least recently used first; the first failing write-back ends it (?).
RECURSIVE flush_from(_, _, _, _)
flush_from(cache, k, f, pos) ==
    IF k > Len(cache)
    THEN [err |-> FALSE, slabs |-> cache, file |-> f, fpos |-> pos, io |-> << >>]
    ELSE Let(Slab_flush(cache[k], f, pos, cache[k].idx * SLAB_SIZE), LAMBDA r :
           IF r.err
           THEN [err |-> TRUE, slabs |-> cache, file |-> r.file,
                 fpos |-> r.fpos, io |-> r.io]
           ELSE Let([cache EXCEPT ![k] = r.slab], LAMBDA flushed :
                  [flush_from(flushed, k + 1, r.file, r.fpos)
                      EXCEPT !.io = r.io \o @]))

\* BufFile::flush on the given cache and store: every slab, then file.flush().
flush_all(cache, f, pos) ==
    Let(flush_from(cache, 1, f, pos), LAMBDA r :
      IF r.err THEN r
      ELSE [r EXCEPT !.err = (fault = "sync"), !.io = @ \o <<"sync">>])

\* BufFile::flush
flush == flush_all(slabs, file, fpos)

(***************************************************************************)
(* into_inner and Drop                                                     *)
(***************************************************************************)

\* Drop::drop that never flushes.
drop_NoFlush(cache, f, pos, owned) ==
    [slabs |-> cache, file |-> f, fpos |-> pos, io |-> << >>]

\* Drop::drop: nothing when the store was taken out (self.file.is_none()),
\* else a flush whose result is discarded (let _ = self.flush()).
drop(cache, f, pos, owned) ==
    IF ~owned THEN [slabs |-> cache, file |-> f, fpos |-> pos, io |-> << >>]
    ELSE Let(flush_all(cache, f, pos), LAMBDA r :
           [slabs |-> r.slabs, file |-> r.file, fpos |-> r.fpos, io |-> r.io])

\* into_inner that takes the store out without flushing.
into_inner_NoFlush ==
    Let(drop(slabs, file, fpos, FALSE), LAMBDA d :
      [ok |-> "Ok", slabs |-> d.slabs, file |-> d.file, fpos |-> d.fpos,
       io |-> d.io])

\* BufFile::into_inner: self.flush()?, then the store is taken out; self is
\* dropped when the call returns, still owning the store if the flush failed.
into_inner ==
    Let(flush, LAMBDA r :
      Let(drop(r.slabs, r.file, r.fpos, r.err), LAMBDA d :
        [ok |-> IF r.err THEN "Err" ELSE "Ok",
         slabs |-> d.slabs, file |-> d.file, fpos |-> d.fpos,
         io |-> r.io \o d.io]))

(***************************************************************************)
(* Seek                                                                    *)
(***************************************************************************)

\* cur - y on u64: the difference, or on underflow a panic (checked) or a wrap.
cursor_sub(cur, y, checked) ==
    IF cur - y >= 0 THEN [panic |-> FALSE, cursor |-> cur - y]
    ELSE IF checked THEN [panic |-> TRUE, cursor |-> cur]
    ELSE [panic |-> FALSE, cursor |-> (cur - y) % U64_MOD]

\* BufFile::seek, SeekFrom::Current(x)
seek_current(cur, x, checked) ==
    IF x < 0 THEN cursor_sub(cur, (0 - x) % U64_MOD, checked)
    ELSE cursor_sub(cur, x % U64_MOD, checked)

\* seek(SeekFrom::End(k)) answered from the length the store has once every
\* dirty slab is written back.
seek_end_Logical(k) ==
    IF fault = "seek" THEN [ok |-> FALSE, pos |-> 0]
    ELSE StoreSeekEnd(flush.file, k)

\* BufFile::seek, SeekFrom::End(k): file.seek(pos)? on the store as it is.
seek_end(k) ==
    IF fault = "seek" THEN [ok |-> FALSE, pos |-> 0]
    ELSE StoreSeekEnd(file, k)

(***************************************************************************)
(* Ghost bookkeeping                                                       *)
(***************************************************************************)

\* The slab index and the offset in the slab that the cursor addresses.
CurIdx == idx_from_offset(cursor)

CurOff == cursor - CurIdx * SLAB_SIZE

NoneWritten == [o \in SlabOff |-> NoByte]

\* wrote after an access to slab idx that stored bytes at off ..: a slab that
\* enters the cache starts with nothing written.
Wrote(idx, off, bytes) ==
    LET base == IF idx \in CachedIdx(slabs) THEN wrote[idx] ELSE NoneWritten
    IN [wrote EXCEPT ![idx] =
            [o \in SlabOff |->
                IF o >= off /\ o < off + Len(bytes) THEN bytes[o - off + 1]
                ELSE base[o]]]

\* The ghost clocks after a call that fetched the slab under the cursor (it
\* is not in the cache when fetch_slab panicked or failed).
Touched ==
    /\ touch' = IF CurIdx \in CachedIdx(slabs')
                THEN [touch EXCEPT ![CurIdx] = ops + 1] ELSE touch
    /\ born' = IF CurIdx \in CachedIdx(slabs') /\ CurIdx \notin CachedIdx(slabs)
               THEN [born EXCEPT ![CurIdx] = ops + 1] ELSE born

\* The slabs of a cache that are dirty.
Dirty(cache) == {k \in 1 .. Len(cache) : cache[k].dirty}

\* How many calls of one kind a list of store calls holds.
Calls(io, kind) == Cardinality({j \in 1 .. Len(io) : io[j] = kind})

NoCall == [op |-> "none", n |-> 0, buf |-> << >>, ok |-> "Ok", val |-> 0,
           data |-> << >>, io |-> << >>]

NoRef == [ok |-> "Ok", val |-> 0, data |-> << >>]

(***************************************************************************)
(* State machine                                                           *)
(***************************************************************************)

\* BufFile::with_capacity(file, capacity); the reference store is a second
\* store with the same content and position.
Init ==
    /\ \E s \in InitStores :
          /\ file = s.content
          /\ fpos = s.pos
          /\ cursor = s.pos
          /\ ref_file = s.content
          /\ ref_pos = s.pos
    /\ fault = "none"
    /\ capacity \in 0 .. MaxCapacity
    /\ debug \in BOOLEAN
    /\ slabs = << >>
    /\ status = "open"
    /\ last = NoCall
    /\ ops = 0
    /\ seeks = 0
    /\ reads = 0
    /\ writes = 0
    /\ touch = [i \in SlabIdx |-> 0]
    /\ born = [i \in SlabIdx |-> 0]
    /\ wrote = [i \in SlabIdx |-> NoneWritten]
    /\ ref_last = NoRef

\* BufFile::read(buf) with buf.len() = n
Read(n) ==
    /\ status = "open"
    /\ \E fill \in Fills : \E r \in {read(n, fill)} :
             /\ slabs' = r.slabs
             /\ file' = r.file
             /\ fpos' = r.fpos
             /\ cursor' = r.cursor
             /\ status' = IF r.ok = "Panic" THEN "panicked" ELSE "open"
             /\ last' = [op |-> "read", n |-> n, buf |-> << >>,
                         ok |-> r.ok, val |-> r.val, data |-> r.data,
                         io |-> r.io]
    /\ Touched
    /\ wrote' = IF CurIdx \in CachedIdx(slabs') THEN Wrote(CurIdx, 0, << >>)
                ELSE wrote
    /\ ops' = ops + 1
    /\ reads' = reads + 1
    /\ UNCHANGED <<fault, capacity, debug, seeks, writes>>

\* BufFile::write(buf)
Write(buf) ==
    /\ status = "open"
    /\ \E fill \in Fills : \E r \in {write(buf, fill)} :
             /\ slabs' = r.slabs
             /\ file' = r.file
             /\ fpos' = r.fpos
             /\ cursor' = r.cursor
             /\ status' = IF r.ok = "Panic" THEN "panicked" ELSE "open"
             /\ last' = [op |-> "write", n |-> Len(buf), buf |-> buf,
                         ok |-> r.ok, val |-> r.val, data |-> << >>,
                         io |-> r.io]
    /\ Touched
    /\ wrote' = IF CurIdx \notin CachedIdx(slabs') THEN wrote
                ELSE IF last'.ok = "Err" THEN Wrote(CurIdx, 0, << >>)
                ELSE Wrote(CurIdx, CurOff,
                           SubSeq(buf, 1, Min(Len(buf), SLAB_SIZE - CurOff)))
    /\ ops' = ops + 1
    /\ writes' = writes + 1
    /\ UNCHANGED <<fault, capacity, debug, seeks, reads>>

\* BufFile::flush()
Flush ==
    /\ status = "open"
    /\ \E r \in {flush} :
          /\ slabs' = r.slabs
          /\ file' = r.file
          /\ fpos' = r.fpos
          /\ last' = [op |-> "flush", n |-> 0, buf |-> << >>,
                      ok |-> IF r.err THEN "Err" ELSE "Ok", val |-> 0,
                      data |-> << >>, io |-> r.io]
    /\ ops' = ops + 1
    /\ UNCHANGED <<fault, capacity, cursor, debug, status, seeks, reads, writes,
                   touch, born, wrote>>

\* BufFile::into_inner(), with the drop of self that ends it
IntoInner ==
    /\ status = "open"
    /\ \E r \in {into_inner} :
          /\ slabs' = r.slabs
          /\ file' = r.file
          /\ fpos' = r.fpos
          /\ status' = IF r.ok = "Ok" THEN "released" ELSE "dropped"
          /\ last' = [op |-> "into_inner", n |-> 0, buf |-> << >>,
                      ok |-> r.ok, val |-> 0, data |-> << >>, io |-> r.io]
    /\ UNCHANGED <<fault, capacity, cursor, debug, ops, seeks, reads, writes,
                   touch, born, wrote>>

\* Drop for BufFile: the BufFile goes out of scope still owning its store
Drop ==
    /\ status = "open"
    /\ \E r \in {drop(slabs, file, fpos, TRUE)} :
          /\ slabs' = r.slabs
          /\ file' = r.file
          /\ fpos' = r.fpos
          /\ last' = [op |-> "drop", n |-> 0, buf |-> << >>,
                      ok |-> "Ok", val |-> 0, data |-> << >>, io |-> r.io]
    /\ status' = "dropped"
    /\ UNCHANGED <<fault, capacity, cursor, debug, ops, seeks, reads, writes,
                   touch, born, wrote>>

\* The backing store starts to fail one kind of call, or recovers.
StoreFault(e) ==
    /\ status = "open"
    /\ e # fault
    /\ fault' = e
    /\ UNCHANGED <<file, fpos, slabs, capacity, cursor, debug, status, last, ops,
                   seeks, reads, writes, touch, born, wrote>>

\* BufFile::seek(SeekFrom::Start(x))
SeekStart(x) ==
    /\ status = "open"
    /\ cursor' = x
    /\ last' = [op |-> "seek_start", n |-> x, buf |-> << >>,
                ok |-> "Ok", val |-> x, data |-> << >>, io |-> << >>]
    /\ seeks' = seeks + 1
    /\ UNCHANGED <<file, fpos, fault, slabs, capacity, debug, status, ops, reads,
                   writes, touch, born, wrote>>

\* BufFile::seek(SeekFrom::End(k))
SeekEnd(k) ==
    /\ status = "open"
    /\ LET r == seek_end(k)
       IN /\ fpos' = IF r.ok THEN r.pos ELSE fpos
          /\ cursor' = IF r.ok THEN r.pos ELSE cursor
          /\ last' = [op |-> "seek_end", n |-> k, buf |-> << >>,
                      ok |-> IF r.ok THEN "Ok" ELSE "Err", val |-> r.pos,
                      data |-> << >>, io |-> <<"seek">>]
    /\ seeks' = seeks + 1
    /\ UNCHANGED <<file, fault, slabs, capacity, debug, status, ops, reads, writes,
                   touch, born, wrote>>

\* BufFile::seek(SeekFrom::Current(x))
SeekCurrent(x) ==
    /\ status = "open"
    /\ LET r == seek_current(cursor, x, debug)
       IN /\ cursor' = r.cursor
          /\ status' = IF r.panic THEN "panicked" ELSE "open"
          /\ last' = [op |-> "seek_cur", n |-> x, buf |-> << >>,
                      ok |-> IF r.panic THEN "Panic" ELSE "Ok",
                      val |-> IF r.panic THEN 0 ELSE r.cursor, data |-> << >>,
                      io |-> << >>]
    /\ seeks' = seeks + 1
    /\ UNCHANGED <<file, fpos, fault, slabs, capacity, debug, ops, reads, writes,
                   touch, born, wrote>>

(***************************************************************************)
(* The reference store of tests/test.rs (CheckFiles::real_file): the same  *)
(* calls made directly on a store of its own.                              *)
(***************************************************************************)

RefRead(n) ==
    LET got == StoreRead(ref_file, ref_pos, n)
    IN /\ ref_pos' = ref_pos + Len(got)
       /\ ref_last' = [ok |-> "Ok", val |-> Len(got), data |-> got]
       /\ UNCHANGED ref_file

RefWrite(buf) ==
    IF ref_pos + Len(buf) > U64_MOD
    THEN /\ ref_last' = [ok |-> "Err", val |-> 0, data |-> << >>]
         /\ UNCHANGED <<ref_file, ref_pos>>
    ELSE /\ ref_file' = StoreWrite(ref_file, ref_pos, buf)
         /\ ref_pos' = ref_pos + Len(buf)
         /\ ref_last' = [ok |-> "Ok", val |-> Len(buf), data |-> << >>]

RefFlush ==
    /\ ref_last' = [ok |-> "Ok", val |-> 0, data |-> << >>]
    /\ UNCHANGED <<ref_file, ref_pos>>

RefSeekStart(x) ==
    /\ ref_pos' = x
    /\ ref_last' = [ok |-> "Ok", val |-> x, data |-> << >>]
    /\ UNCHANGED ref_file

RefSeekEnd(k) ==
    LET r == StoreSeekEnd(ref_file, k)
    IN /\ ref_pos' = IF r.ok THEN r.pos ELSE ref_pos
       /\ ref_last' = [ok |-> IF r.ok THEN "Ok" ELSE "Err", val |-> r.pos, data |-> << >>]
       /\ UNCHANGED ref_file

RefSeekCurrent(d) ==
    LET r == StoreSeekCurrent(ref_pos, d)
    IN /\ ref_pos' = r.pos
       /\ ref_last' = [ok |-> IF r.ok THEN "Ok" ELSE "Err",
                       val |-> IF r.ok THEN r.pos ELSE 0, data |-> << >>]
       /\ UNCHANGED ref_file

(***************************************************************************)
(* Specifications                                                          *)
(***************************************************************************)

\* Reads, writes, flushes and seeks with every kind of argument, on a store
\* that does not fail.
Next ==
    \/ \E n \in ReadLens : ops < MaxOps /\ Read(n) /\ UNCHANGED rvars
    \/ \E buf \in WriteBufs : ops < MaxOps /\ Write(buf) /\ UNCHANGED rvars
    \/ ops < MaxOps /\ Flush /\ UNCHANGED rvars
    \/ \E x \in SeekStarts : seeks < MaxSeeks /\ SeekStart(x) /\ UNCHANGED rvars
    \/ \E k \in SeekEnds : seeks < MaxSeeks /\ SeekEnd(k) /\ UNCHANGED rvars
    \/ \E x \in SeekDeltas : seeks < MaxSeeks /\ SeekCurrent(x) /\ UNCHANGED rvars

Spec == Init /\ [][Next]_vars

\* Longer runs of whole-slab transfers at slab-aligned offsets: the cache.
NextLru ==
    \/ \E n \in LruReadLens : ops < DeepOps /\ Read(n) /\ UNCHANGED rvars
    \/ \E buf \in LruWriteBufs : ops < DeepOps /\ Write(buf) /\ UNCHANGED rvars
    \/ ops < DeepOps /\ Flush /\ UNCHANGED rvars
    \/ \E x \in LruSeekStarts : seeks < MaxSeeks /\ SeekStart(x) /\ UNCHANGED rvars

SpecLru == Init /\ [][NextLru]_vars

\* The calls made in lock-step on the BufFile and on the reference store.
NextRef ==
    \/ \E n \in ReadLens : ops < MaxOps /\ Read(n) /\ RefRead(n)
    \/ \E buf \in WriteBufs : ops < MaxOps /\ Write(buf) /\ RefWrite(buf)
    \/ ops < MaxOps /\ Flush /\ RefFlush
    \/ \E x \in SeekStarts : seeks < MaxSeeks /\ SeekStart(x) /\ RefSeekStart(x)
    \/ \E k \in SeekEnds : seeks < MaxSeeks /\ SeekEnd(k) /\ RefSeekEnd(k)
    \/ \E x \in SeekDeltas : seeks < MaxSeeks /\ SeekCurrent(x) /\ RefSeekCurrent(x)

SpecRef == Init /\ [][NextRef]_vars

\* Whole-slab transfers on a store that can fail, up to the end of the
\* BufFile's life.
NextIo ==
    \/ \E n \in LruReadLens : ops < IoOps /\ Read(n) /\ UNCHANGED rvars
    \/ \E buf \in LruWriteBufs : ops < IoOps /\ Write(buf) /\ UNCHANGED rvars
    \/ ops < IoOps /\ Flush /\ UNCHANGED rvars
    \/ \E x \in LruSeekStarts : seeks < IoSeeks /\ SeekStart(x) /\ UNCHANGED rvars
    \/ \E k \in SeekEnds : seeks < IoSeeks /\ SeekEnd(k) /\ UNCHANGED rvars
    \/ IntoInner /\ UNCHANGED rvars
    \/ Drop /\ UNCHANGED rvars
    \/ \E e \in Faults : StoreFault(e) /\ UNCHANGED rvars

SpecIo == Init /\ [][NextIo]_vars

(***************************************************************************)
(* Properties                                                              *)
(***************************************************************************)

\* The step is a read, write or flush call / a seek call of the given kind.
IoStep(op) == ops' = ops + 1 /\ last'.op = op

SeekStep(op) == seeks' = seeks + 1 /\ last'.op = op

\* The step is the call that ends the BufFile's life: into_inner or the drop.
EndStep(op) == status = "open" /\ status' # "open" /\ last'.op = op

\* The store holds the slab's whole block at the slab's aligned offset.
StoreHolds(f, slab) ==
    /\ Len(f) >= (slab.idx + 1) * SLAB_SIZE
    /\ SubSeq(f, slab.idx * SLAB_SIZE + 1, (slab.idx + 1) * SLAB_SIZE) = slab.data

\* A flush of the cache as it is would meet a failing store call: the seek or
\* the write of a dirty slab's write-back, or the store's own flush.
FlushMeetsFault ==
    \/ fault \in {"seek", "write"} /\ Dirty(slabs) # {}
    \/ fault = "sync"

\* C1: every call returns the same on the BufFile and on the reference store
\* (same seek result, same read/write count), and every read delivers the
\* same bytes. Stated for the calls the reference store accepts, on a BufFile
\* whose capacity is at least 1.
C1_SameAsDirectIO ==
    (capacity >= 1 /\ last.op # "none" /\ ref_last.ok = "Ok") =>
        /\ last.ok # "Panic"
        /\ last.ok = ref_last.ok
        /\ last.ok = "Ok" => (last.val = ref_last.val /\ last.data = ref_last.data)

\* C2: after flush() returns Ok, every byte written into a slab that was dirty
\* before the flush, since the slab entered the cache, is in the backing store
\* at slab_index * SLAB_SIZE + offset_in_slab, for any sequence of seeks and
\* writes preceding the flush.
C2_FlushWritesBack ==
    [][(IoStep("flush") /\ last'.ok = "Ok" /\ reads = 0) =>
          \A k \in 1 .. Len(slabs) :
             slabs[k].dirty =>
                \A o \in SlabOff :
                   wrote[slabs[k].idx][o] # NoByte =>
                      /\ Len(file') >= slabs[k].idx * SLAB_SIZE + o + 1
                      /\ file'[slabs[k].idx * SLAB_SIZE + o + 1] = wrote[slabs[k].idx][o]]_vars

\* C3: the number of cached slabs never exceeds the capacity given at
\* construction.
C3_CapacityBound == Len(slabs) <= capacity

\* C3 witness: a full cache of two or more slabs that has already evicted one.
C3_Witness ==
    /\ capacity >= 2
    /\ Len(slabs) = capacity
    /\ \E i \in SlabIdx : born[i] > 0 /\ i \notin CachedIdx(slabs)

C5_ReadsBackEvicted ==
    [][(IoStep("read")
            /\ capacity >= 1
            /\ last'.n >= 1
            /\ CurIdx \notin CachedIdx(slabs)
            /\ wrote[CurIdx][CurOff] # NoByte) =>
          /\ last'.ok = "Ok"
          /\ last'.val >= 1
          /\ \A j \in 1 .. last'.val :
                wrote[CurIdx][CurOff + j - 1] # NoByte =>
                   last'.data[j] = wrote[CurIdx][CurOff + j - 1]]_vars

\* C6: after write(buf) returns len for a write at offset o of a slab, the
\* slab's valid length is at least o + len, and a read at an offset of a cached
\* slab where a byte was written returns the written bytes.
C6_WriteExtendsValid ==
    [][/\ (IoStep("write") /\ last'.ok = "Ok" /\ last'.val >= 1) =>
             SlabOf(slabs', CurIdx).bytes_used >= CurOff + last'.val
       /\ (IoStep("read")
              /\ last'.n >= 1
              /\ CurIdx \in CachedIdx(slabs)
              /\ wrote[CurIdx][CurOff] # NoByte) =>
             /\ last'.ok = "Ok"
             /\ last'.val >= 1
             /\ \A j \in 1 .. last'.val :
                   wrote[CurIdx][CurOff + j - 1] # NoByte =>
                      last'.data[j] = wrote[CurIdx][CurOff + j - 1]]_vars

\* C7: a read with the cursor at or beyond the end of the data available for
\* the current slab (after the fill loop) returns Ok(0): no error, no panic,
\* cursor unchanged. Stated for a capacity of at least 1.
C7_ReadPastEndIsZero ==
    [][(IoStep("read")
            /\ capacity >= 1
            /\ SlabOf(slabs', CurIdx).bytes_used <= CurOff) =>
          /\ status' = "open"
          /\ last'.ok = "Ok"
          /\ last'.val = 0
          /\ cursor' = cursor]_vars

\* C8: a read that succeeds with n has n <= buf.len(), n <= SLAB_SIZE -
\* offset_in_slab, n = min(buf.len(), valid_length - offset_in_slab) and moves
\* the cursor by n; a buffer smaller than the populated run yields buf.len()
\* rather than a failure. Stated for a capacity of at least 1.
C8_ReadTransfer ==
    [][(IoStep("read") /\ capacity >= 1) =>
          LET avail == SlabOf(slabs', CurIdx).bytes_used - CurOff
          IN /\ last'.ok = "Ok" =>
                   /\ last'.val <= last'.n
                   /\ last'.val <= SLAB_SIZE - CurOff
                   /\ last'.val = Min(last'.n, avail)
                   /\ cursor' = cursor + last'.val
             /\ avail > last'.n => (last'.ok = "Ok" /\ last'.val = last'.n)]_vars

\* C9: a write that succeeds returns min(buf.len(), SLAB_SIZE -
\* offset_in_slab), stores buf[..len] in the slab at offset_in_slab, marks the
\* slab dirty, changes no other slab's data and moves the cursor by len.
C9_WriteTransfer ==
    [][(IoStep("write") /\ last'.ok = "Ok") =>
          LET len == last'.val
              slab == SlabOf(slabs', CurIdx)
          IN /\ len = Min(Len(last'.buf), SLAB_SIZE - CurOff)
             /\ SubSeq(slab.data, CurOff + 1, CurOff + len) = SubSeq(last'.buf, 1, len)
             /\ slab.dirty
             /\ \A j \in CachedIdx(slabs') \ {CurIdx} :
                   /\ j \in CachedIdx(slabs)
                   /\ SlabOf(slabs', j).data = SlabOf(slabs, j).data
             /\ cursor' = cursor + len]_vars

\* C10: seek(SeekFrom::Current(d)) with cursor + d in [0, 2^64) sets the
\* cursor to cursor + d and returns it, without any backing-store I/O.
C10_SeekCurrentMoves ==
    [][(SeekStep("seek_cur")
            /\ cursor + last'.n >= 0
            /\ cursor + last'.n < U64_MOD) =>
          /\ status' = "open"
          /\ last'.ok = "Ok"
          /\ last'.val = cursor + last'.n
          /\ cursor' = cursor + last'.n
          /\ file' = file
          /\ fpos' = fpos]_vars

\* C11: seek(SeekFrom::Current(d)) panics when d is negative with |d| greater
\* than the cursor and when d is positive with cursor + d beyond the u64
\* range; it never returns Ok with a wrapped-around cursor.
C11_SeekCurrentAborts ==
    [][(SeekStep("seek_cur")
            /\ (cursor + last'.n < 0 \/ cursor + last'.n >= U64_MOD)) =>
          /\ last'.ok = "Panic"
          /\ status' = "panicked"]_vars

C13_SeekPastEndFails ==
    [][((SeekStep("seek_end") \/ SeekStep("seek_cur"))
            /\ last.op = "none"
            /\ file = << >>
            /\ cursor = 0
            /\ last'.n = 1) =>
          last'.ok # "Ok"]_vars

\* C14: into_inner() returns Ok(store) only after a flush that succeeded:
\* every slab that was dirty is in the store at its aligned offset and no
\* cached slab is left dirty; when the flush fails it returns the error and
\* the store is not handed back.
C14_IntoInnerFlushes ==
    [][EndStep("into_inner") =>
          IF FlushMeetsFault
          THEN /\ last'.ok = "Err"
               /\ status' = "dropped"
          ELSE /\ last'.ok = "Ok"
               /\ status' = "released"
               /\ \A k \in Dirty(slabs) : StoreHolds(file', slabs[k])
               /\ Dirty(slabs') = {}]_vars

\* C14 witness: into_inner has returned the store after writing back a dirty
\* slab.
C14_Witness ==
    /\ status = "released"
    /\ last.op = "into_inner"
    /\ last.ok = "Ok"
    /\ Calls(last.io, "write") >= 1

\* C15: dropping a BufFile that owns its store flushes as flush() does: when
\* no store call fails every dirty slab is in the store at its aligned offset
\* afterwards; when a call fails the drop still completes, without a panic;
\* and the drop that follows a successful into_inner() makes no call on the
\* store (the calls of into_inner are those of its one flush).
C15_TeardownFlushes ==
    [][/\ EndStep("drop") =>
             /\ status' = "dropped"
             /\ ~FlushMeetsFault =>
                   /\ \A k \in Dirty(slabs) : StoreHolds(file', slabs[k])
                   /\ Dirty(slabs') = {}
       /\ (EndStep("into_inner") /\ last'.ok = "Ok") =>
             /\ Calls(last'.io, "seek") = Cardinality(Dirty(slabs))
             /\ Calls(last'.io, "write") = Cardinality(Dirty(slabs))
             /\ Calls(last'.io, "sync") = 1
             /\ Calls(last'.io, "read") = 0]_vars

\* C15 witness: a BufFile has been dropped with a dirty slab on a store that
\* did not fail, and the slab was written back.
C15_Witness ==
    /\ status = "dropped"
    /\ last.op = "drop"
    /\ fault = "none"
    /\ Calls(last.io, "write") >= 1

\* C16: when a read or write misses a full cache and the write-back of the
\* evicted dirty slab fails, the call returns the error after that one
\* attempt, transfers no bytes and leaves the cursor where it was.
C16_EvictionFailureReturned ==
    [][((IoStep("read") \/ IoStep("write"))
            /\ capacity >= 1
            /\ Len(slabs) = capacity
            /\ CurIdx \notin CachedIdx(slabs)
            /\ Head(slabs).dirty
            /\ fault \in {"seek", "write"}) =>
          /\ last'.ok = "Err"
          /\ status' = "open"
          /\ last'.val = 0
          /\ last'.data = << >>
          /\ cursor' = cursor
          /\ file' = file
          /\ last'.io = IF fault = "seek" THEN <<"seek">> ELSE <<"seek", "write">>
          /\ \A j \in CachedIdx(slabs') :
                /\ j \in CachedIdx(slabs)
                /\ SlabOf(slabs', j) = SlabOf(slabs, j)]_vars

\* C16 witness: a read or write has returned the error of a write-back (the
\* only seek a read or write makes on the store is that of an eviction).
C16_Witness ==
    /\ last.op \in {"read", "write"}
    /\ last.ok = "Err"
    /\ Len(last.io) >= 1
    /\ last.io[1] = "seek"

\* C17: every cached slab that is not dirty holds, in its first valid_length
\* bytes, the store's bytes at slab_index * SLAB_SIZE ..; a demand-load reads
\* them from there wherever the store's position was left.
C17_CleanSlabMatchesStore ==
    \A k \in 1 .. Len(slabs) :
       ~slabs[k].dirty =>
          \A o \in 0 .. (slabs[k].bytes_used - 1) :
             /\ Len(file) >= slabs[k].idx * SLAB_SIZE + o + 1
             /\ file[slabs[k].idx * SLAB_SIZE + o + 1] = slabs[k].data[o + 1]

\* C18: after flush() returns Ok no cached slab is dirty; when the write-back
\* of a slab fails flush() returns the error of the first slab that failed,
\* which stays dirty and cached; a slab that is not dirty causes no seek and
\* no write on the store and is left as it is.
C18_FlushErrors ==
    [][IoStep("flush") =>
          /\ last'.ok = "Ok" => Dirty(slabs') = {}
          /\ last'.ok = (IF FlushMeetsFault THEN "Err" ELSE "Ok")
          /\ (fault \in {"seek", "write"} /\ Dirty(slabs) # {}) =>
                LET first == CHOOSE k \in Dirty(slabs) :
                                \A j \in Dirty(slabs) : k <= j
                IN /\ Len(slabs') = Len(slabs)
                   /\ slabs'[first] = slabs[first]
                   /\ last'.io = IF fault = "seek" THEN <<"seek">>
                                  ELSE <<"seek", "write">>
          /\ Calls(last'.io, "seek") <= Cardinality(Dirty(slabs))
          /\ Calls(last'.io, "write") <= Cardinality(Dirty(slabs))
          /\ \A k \in 1 .. Len(slabs) :
                ~slabs[k].dirty => (Len(slabs') >= k /\ slabs'[k] = slabs[k])]_vars

\* C18 witness: a flush has returned the error of a dirty slab's write-back,
\* and the slab is still cached and dirty.
C18_Witness ==
    /\ last.op = "flush"
    /\ last.ok = "Err"
    /\ last.io[1] = "seek"
    /\ Dirty(slabs) # {}

\* C19: every cached slab has 0 <= bytes_used <= SLAB_SIZE, and the slab that
\* add_slab inserts for an index not in the cache, freshly allocated or reused
\* from an eviction, has bytes_used = 0 and dirty = false.
C19_ValidLengthBounds ==
    /\ \A k \in 1 .. Len(slabs) :
          slabs[k].bytes_used >= 0 /\ slabs[k].bytes_used <= SLAB_SIZE
    /\ \A idx \in SlabIdx \ CachedIdx(slabs) : \A fill \in Fills :
          \A r \in {add_slab(slabs, capacity, file, fpos, idx, fill)} :
             (~r.panic /\ ~r.err) =>
                /\ r.at \in 1 .. Len(r.slabs)
                /\ r.slabs[r.at].idx = idx
                /\ r.slabs[r.at].bytes_used = 0
                /\ r.slabs[r.at].dirty = FALSE

\* C19 witness: a read has evicted a dirty slab, written it back and reused
\* it for the index it reads; the slab is clean and within the bounds.
C19_Witness ==
    /\ last.op = "read"
    /\ last.ok = "Ok"
    /\ Len(last.io) >= 2
    /\ last.io[1] = "seek"
    /\ ~slabs[Len(slabs)].dirty
    /\ slabs[Len(slabs)].bytes_used <= SLAB_SIZE

\* C20: as long as no write has been called, no call (read, seek, flush, an
\* eviction by a read, into_inner, drop) makes a slab dirty, issues a write
\* to the store or changes its content.
C20_ReadsNeverDirty ==
    [][(writes = 0 /\ writes' = 0) =>
          /\ file' = file
          /\ Dirty(slabs') = {}
          /\ Calls(last'.io, "write") = 0]_vars

\* C20 witness: without any write, reads have filled the cache and evicted a
\* slab, and the BufFile has been torn down.
C20_Witness ==
    /\ writes = 0
    /\ reads >= 2
    /\ \E b \in SlabIdx \ CachedIdx(slabs) : born[b] > 0
    /\ status \in {"released", "dropped"}

\* C21: a BufFile constructed with capacity 0 is open, and its first read or
\* write panics in add_slab, before any call on the store and without caching
\* a slab, instead of returning a result; with a capacity of at least 1
\* fetch_slab never meets that panic, and a read or write that panics does so
\* after its slab is in the cache.
C21_ZeroCapacityPanics ==
    [][(IoStep("read") \/ IoStep("write")) =>
          /\ capacity = 0 =>
                /\ last'.ok = "Panic"
                /\ status' = "panicked"
                /\ slabs' = << >>
                /\ last'.io = << >>
                /\ file' = file
          /\ capacity >= 1 =>
                /\ \A fill \in Fills :
                      ~fetch_slab(slabs, capacity, file, fpos, CurIdx, fill).panic
                /\ last'.ok = "Panic" => CurIdx \in CachedIdx(slabs')]_vars

\* C21 witness: the first read or write on a BufFile of capacity 0 has
\* panicked.
C21_Witness ==
    /\ capacity = 0
    /\ ops = 1
    /\ last.op \in {"read", "write"}
    /\ last.ok = "Panic"
    /\ status = "panicked"
    /\ slabs = << >>

====
